---- MODULE Spec2Model ----
\* The GitHub profile README generator (scripts/generate-readme.js) as a
\* state machine: one run of the script over a file system holding the
\* advisory file, the blog content tree and the output path.
EXTENDS Integers, Sequences, FiniteSets, TLC

\* ------------------------------------------------------------------ text --
\* A text is a sequence of one-character strings.

Min(S) == CHOOSE x \in S : \A y \in S : x <= y

Max(S) == CHOOSE x \in S : \A y \in S : x >= y

\* \s of the regular expressions (the members that occur in the documents)
WhiteSpace == {" ", "\t", "\n", "\r"}

\* the characters "." does not match
LineTerminators == {"\n", "\r"}

\* ["']
QuoteChars == {"\"", "'"}

Digits == <<"0", "1", "2", "3", "4", "5", "6", "7", "8", "9">>

DigitChars == {Digits[i] : i \in 1..10}

DigitVal(c) == (CHOOSE i \in 1..10 : Digits[i] = c) - 1

\* pat occurs in s at position p
OccursAt(s, p, pat) ==
  /\ p >= 1
  /\ p + Len(pat) - 1 <= Len(s)
  /\ SubSeq(s, p, p + Len(pat) - 1) = pat

\* String.prototype.endsWith
EndsWith(s, pat) == OccursAt(s, Len(s) - Len(pat) + 1, pat)

\* String.prototype.replace(pat, "") with a string pattern: the first
\* occurrence only
ReplaceFirst(s, pat) ==
  LET occ == {p \in 1..Len(s) : OccursAt(s, p, pat)}
  IN  IF occ = {} THEN s
      ELSE LET p == Min(occ)
           IN  SubSeq(s, 1, p - 1) \o SubSeq(s, p + Len(pat), Len(s))

\* String.prototype.replace(/c/g, d): every occurrence of the character c
ReplaceAll(s, c, d) == [i \in 1..Len(s) |-> IF s[i] = c THEN d ELSE s[i]]

\* number of characters of s from position q on that belong to S (a greedy
\* run)
RunLen(s, q, S) ==
  LET stops == {j \in q..Len(s) : s[j] \notin S}
  IN  IF stops = {} THEN (IF q > Len(s) THEN 0 ELSE Len(s) - q + 1)
      ELSE Min(stops) - q

NoMatch == [matched |-> FALSE, group |-> <<>>]

\* content.match(/^---\n([\s\S]*?)\n---/): the text must begin with the
\* opening line; the lazy group ends at the first closing delimiter
FrontmatterOpen == <<"-", "-", "-", "\n">>

FrontmatterClose == <<"\n", "-", "-", "-">>

\* the expression without its ^: the first header block anywhere in the text
frontmatterMatch_Unanchored(content) ==
  LET ends(p) == {k \in (p + 3)..Len(content) : OccursAt(content, k + 1, FrontmatterClose)}
      opens == {p \in 1..Len(content) : OccursAt(content, p, FrontmatterOpen) /\ ends(p) # {}}
  IN  IF opens # {}
      THEN [matched |-> TRUE, group |-> SubSeq(content, Min(opens) + 4, Min(ends(Min(opens))))]
      ELSE NoMatch

frontmatterMatch(content) ==
  LET ends == {k \in 4..Len(content) : OccursAt(content, k + 1, FrontmatterClose)}
  IN  IF OccursAt(content, 1, FrontmatterOpen) /\ ends # {}
      THEN [matched |-> TRUE, group |-> SubSeq(content, 5, Min(ends))]
      ELSE NoMatch

\* frontmatter.match(/title:\s*["'](.+?)["']/) tried at position p: the
\* capture, or NoMatch
TitleKey == <<"t", "i", "t", "l", "e", ":">>

TitleAt(s, p) ==
  IF ~OccursAt(s, p, TitleKey) THEN NoMatch
  ELSE LET q == p + 6 + RunLen(s, p + 6, WhiteSpace)
           closes == {j \in (q + 2)..Len(s) :
                        /\ s[j] \in QuoteChars
                        /\ \A i \in (q + 1)..(j - 1) : s[i] \notin LineTerminators}
       IN  IF q <= Len(s) /\ s[q] \in QuoteChars /\ closes # {}
           THEN [matched |-> TRUE, group |-> SubSeq(s, q + 1, Min(closes) - 1)]
           ELSE NoMatch

\* the leftmost match of the title expression
titleMatch(s) ==
  LET hits == {p \in 1..Len(s) : TitleAt(s, p).matched}
  IN  IF hits = {} THEN NoMatch ELSE TitleAt(s, Min(hits))

\* frontmatter.match(/date:\s*(.+)/) tried at position p: \s* is greedy and
\* gives characters back until (.+) finds one character to match
DateKey == <<"d", "a", "t", "e", ":">>

DateAt(s, p) ==
  IF ~OccursAt(s, p, DateKey) THEN NoMatch
  ELSE LET q == p + 5
           w == RunLen(s, q, WhiteSpace)
           starts == {c \in 0..w : q + c <= Len(s) /\ s[q + c] \notin LineTerminators}
       IN  IF starts = {} THEN NoMatch
           ELSE LET b == q + Max(starts)
                    n == RunLen(s, b, {s[i] : i \in 1..Len(s)} \ LineTerminators)
                IN  [matched |-> TRUE, group |-> SubSeq(s, b, b + n - 1)]

dateMatch(s) ==
  LET hits == {p \in 1..Len(s) : DateAt(s, p).matched}
  IN  IF hits = {} THEN NoMatch ELSE DateAt(s, Min(hits))

\* new Date(text): a Date object, its time value a number or NaN.  The ISO
\* year form "YYYY" is the only date form of the documents below; every
\* other text of theirs gives the invalid date.
InvalidDate == [nan |-> TRUE, time |-> 0]

NewDate(text) ==
  IF Len(text) = 4 /\ \A i \in 1..4 : text[i] \in DigitChars
  THEN [nan |-> FALSE,
        time |-> DigitVal(text[1]) * 1000 + DigitVal(text[2]) * 100
                   + DigitVal(text[3]) * 10 + DigitVal(text[4])]
  ELSE InvalidDate

\* ---------------------------------------------------------------- bounds --
\* the largest number of documents of a flat content root whose documents
\* are of every kind
MaxDocs == 2

\* the largest number of documents of a flat content root whose documents
\* all have a header block
MaxPosts == 4

\* the largest number of entries of the content root of a nested tree
MaxEntries == 2

\* the largest number of entries of a directory below the content root
MaxSubEntries == 1

\* the largest number of records of the advisory collection
MaxCves == 3

\* ---------------------------------------------------------------- inputs --
\* The documents of the content tree, by name; DocText gives their text.
DocText ==
  "ok25" :> <<"-", "-", "-", "\n", "t", "i", "t", "l", "e", ":", " ", "'", "A", "'", "\n", "d", "a", "t", "e", ":", " ", "2", "0", "2", "5", "\n", "-", "-", "-", "\n", "x">> @@
  "ok24" :> <<"-", "-", "-", "\n", "t", "i", "t", "l", "e", ":", " ", "\"", "B", "\"", "\n", "d", "a", "t", "e", ":", " ", "2", "0", "2", "4", "\n", "-", "-", "-", "\n">> @@
  "tie25" :> <<"-", "-", "-", "\n", "d", "a", "t", "e", ":", " ", "2", "0", "2", "5", "\n", "t", "i", "t", "l", "e", ":", " ", "'", "C", "'", "\n", "-", "-", "-", "\n">> @@
  "nohdr" :> <<"t", "i", "t", "l", "e", ":", " ", "'", "N", "'", "\n", "d", "a", "t", "e", ":", " ", "2", "0", "2", "5", "\n">> @@
  "late" :> <<"x", "\n", "-", "-", "-", "\n", "t", "i", "t", "l", "e", ":", " ", "'", "L", "'", "\n", "d", "a", "t", "e", ":", " ", "2", "0", "2", "5", "\n", "-", "-", "-", "\n">> @@
  "notitle" :> <<"-", "-", "-", "\n", "d", "a", "t", "e", ":", " ", "2", "0", "2", "3", "\n", "-", "-", "-", "\n">> @@
  "nodate" :> <<"-", "-", "-", "\n", "t", "i", "t", "l", "e", ":", " ", "'", "T", "'", "\n", "-", "-", "-", "\n">> @@
  "baddate" :> <<"-", "-", "-", "\n", "t", "i", "t", "l", "e", ":", " ", "'", "D", "'", "\n", "d", "a", "t", "e", ":", " ", "s", "o", "o", "n", "\n", "-", "-", "-", "\n">> @@
  "two" :> <<"-", "-", "-", "\n", "t", "i", "t", "l", "e", ":", " ", "'", "F", "'", "\n", "d", "a", "t", "e", ":", " ", "2", "0", "2", "5", "\n", "-", "-", "-", "\n", "x", "\n", "-", "-", "-", "\n", "t", "i", "t", "l", "e", ":", " ", "'", "S", "'", "\n", "d", "a", "t", "e", ":", " ", "2", "0", "2", "4", "\n", "-", "-", "-", "\n">> @@
  "bare" :> <<"-", "-", "-", "\n", "\n", "-", "-", "-", "\n">> @@
  "apos" :> <<"-", "-", "-", "\n", "t", "i", "t", "l", "e", ":", " ", "\"", "I", "'", "s", "\"", "\n", "d", "a", "t", "e", ":", " ", "2", "0", "2", "5", "\n", "-", "-", "-", "\n">> @@
  "dquo" :> <<"-", "-", "-", "\n", "t", "i", "t", "l", "e", ":", " ", "'", "a", "\"", "b", "'", "\n", "d", "a", "t", "e", ":", " ", "2", "0", "2", "4", "\n", "-", "-", "-", "\n">> @@
  "subtitle" :> <<"-", "-", "-", "\n", "s", "u", "b", "t", "i", "t", "l", "e", ":", " ", "'", "S", "'", "\n", "t", "i", "t", "l", "e", ":", " ", "'", "T", "'", "\n", "d", "a", "t", "e", ":", " ", "2", "0", "2", "5", "\n", "-", "-", "-", "\n">> @@
  "update" :> <<"-", "-", "-", "\n", "t", "i", "t", "l", "e", ":", " ", "'", "U", "'", "\n", "u", "p", "d", "a", "t", "e", ":", " ", "2", "0", "2", "4", "\n", "d", "a", "t", "e", ":", " ", "2", "0", "2", "5", "\n", "-", "-", "-", "\n">> @@
  "dateval" :> <<"-", "-", "-", "\n", "t", "i", "t", "l", "e", ":", " ", "'", "d", "a", "t", "e", ":", " ", "x", "'", "\n", "d", "a", "t", "e", ":", " ", "2", "0", "2", "5", "\n", "-", "-", "-", "\n">>

DocNames == DOMAIN DocText

\* a file whose read fails (EACCES)
Unreadable == "EACCES"

\* the documents of the nested trees
TreeDocs == {"ok25", "nohdr", Unreadable}

\* A node of the content tree: what readdirSync, statSync and readFileSync
\* give for it.  kind "nostat" is an entry whose statSync throws (a dangling
\* link).
FileNode(name, doc) ==
  [kind |-> "file", name |-> name, doc |-> doc, entries |-> <<>>, readable |-> TRUE]

DirNode(name, entries, readable) ==
  [kind |-> "dir", name |-> name, doc |-> Unreadable, entries |-> entries, readable |-> readable]

NoStatNode(name) ==
  [kind |-> "nostat", name |-> name, doc |-> Unreadable, entries |-> <<>>, readable |-> FALSE]

MissingDir == [kind |-> "missing", name |-> <<>>, doc |-> Unreadable, entries |-> <<>>, readable |-> FALSE]

\* sequences over S of length at most n
SeqsUpTo(S, n) == UNION {[1..k -> S] : k \in 0..n}

\* directory listings: a name occurs once in a directory
DistinctNames(es) == \A i, j \in 1..Len(es) : es[i].name = es[j].name => i = j

Listings(S, n) == {es \in SeqsUpTo(S, n) : DistinctNames(es)}

Letters == <<"a", "b", "c", "f", "g", "h", "i">>

\* the i-th document name of a flat content root: a.md, b.md, ...
FlatName(i) == <<Letters[i], ".", "m", "d">>

FlatRoot(ds) ==
  DirNode(<<>>, [i \in 1..Len(ds) |-> FileNode(FlatName(i), ds[i])], TRUE)

\* the documents whose header block puts the expressions of lines 50 and 51
\* to the test: a quote character inside the quoted title, a field whose
\* name ends in "title" or "date" before the field of that name, a title
\* that holds the text "date:"
FieldDocs == {"apos", "dquo", "subtitle", "update", "dateval"}

\* flat content roots: up to MaxDocs documents, each any of the other
\* documents or unreadable
FlatRoots == {FlatRoot(ds) : ds \in SeqsUpTo((DocNames \ FieldDocs) \cup {Unreadable}, MaxDocs)}

\* flat content roots with one of the documents of FieldDocs
FieldRoots == {FlatRoot(<<d>>) : d \in FieldDocs}

\* flat content roots for the sort: up to MaxPosts documents with a header
\* block, their dates 2025, 2024, 2023 or invalid
SortDocs == {"ok25", "ok24", "notitle", "nodate"}

SortRoots == {FlatRoot(ds) : ds \in SeqsUpTo(SortDocs, MaxPosts)}

\* nested content trees: files and directories of depth one below the root
TreeFileNames == {<<"a", ".", "m", "d">>, <<"B", ".", "m", "d">>, <<"n", ".", "t", "x", "t">>}

TreeDirNames == {<<"d">>, <<"e", ".", "m", "d">>}

TreeFiles ==
  {FileNode(n, d) : n \in {<<"a", ".", "m", "d">>, <<"B", ".", "m", "d">>}, d \in TreeDocs}
    \cup {FileNode(<<"n", ".", "t", "x", "t">>, Unreadable)}

TreeDirs ==
  {DirNode(n, es, TRUE) : n \in TreeDirNames, es \in Listings(TreeFiles, MaxSubEntries)}
    \cup {DirNode(n, <<>>, FALSE) : n \in TreeDirNames}

NestedRoots ==
  {DirNode(<<>>, es, TRUE) :
     es \in Listings(TreeFiles \cup TreeDirs \cup {NoStatNode(<<"l", ".", "m", "d">>)}, MaxEntries)}
    \cup {DirNode(<<>>, <<>>, FALSE), MissingDir}

\* the content trees of the runs that vary the advisory file: this one and
\* the empty content root
DefaultRoot == FlatRoot(<<"ok24", "nohdr">>)

\* The advisory file.  A record's date field is a JSON string or a JSON
\* number; the other fields are fixed by the record's position in the file.
YearValues ==
  {[isNum |-> FALSE, num |-> 0, str |-> <<"2", "0", "2", "4">>],
   [isNum |-> FALSE, num |-> 0, str |-> <<"2", "0", "2", "5">>],
   [isNum |-> FALSE, num |-> 0, str |-> <<"9", "9", "9">>],
   [isNum |-> TRUE, num |-> 2024, str |-> <<>>]}

Cve(i, year) ==
  [id |-> <<"CVE", i>>, date |-> year, type |-> <<"type", i>>,
   target |-> <<"target", i>>, link |-> <<"link", i>>]

CveCollections ==
  {[i \in 1..Len(ys) |-> Cve(i, ys[i])] : ys \in SeqsUpTo(YearValues, MaxCves)}

\* what readFileSync and JSON.parse give for src/data/cves.json: status
\* "ok" (an array), "nonarray" (valid JSON that is not an array), "malformed"
\* (JSON.parse throws) or "unreadable" (readFileSync throws)
CvesFiles ==
  {[status |-> "ok", value |-> c] : c \in CveCollections}
    \cup {[status |-> s, value |-> <<>>] : s \in {"nonarray", "malformed", "unreadable"}}

DefaultCvesFile ==
  [status |-> "ok",
   value |-> <<Cve(1, [isNum |-> FALSE, num |-> 0, str |-> <<"2", "0", "2", "4">>]),
               Cve(2, [isNum |-> FALSE, num |-> 0, str |-> <<"2", "0", "2", "5">>])>>]

\* the output path before the run: no file, or the document of an earlier run
NoFile == [exists |-> FALSE, text |-> <<>>]

OldReadme == [exists |-> TRUE, text |-> <<[kind |-> "preamble"], [kind |-> "stats"]>>]

\* how the script is started: the arguments after the script's name and the
\* environment.  The script has no use of process.argv or process.env, and
\* its paths are taken from the script's own location (lines 13-15).
PlainInvocation == [argv |-> <<>>, env |-> {}]

Invocations == {PlainInvocation, [argv |-> <<"--force">>, env |-> {"CI"}]}

\* the runs: which content tree, advisory file, path separator (path.sep of
\* the platform), earlier output, writability of the output directory and
\* invocation
Inputs ==
  {[root |-> r, cvesFile |-> DefaultCvesFile, sep |-> "/", out |-> OldReadme, writable |-> TRUE,
    invocation |-> PlainInvocation] :
     r \in FlatRoots \cup SortRoots \cup FieldRoots}
  \cup
  {[root |-> r, cvesFile |-> DefaultCvesFile, sep |-> s, out |-> NoFile, writable |-> TRUE,
    invocation |-> PlainInvocation] :
     r \in NestedRoots, s \in {"/", "\\"}}
  \cup
  {[root |-> r, cvesFile |-> c, sep |-> "/", out |-> o, writable |-> w, invocation |-> v] :
     r \in {DefaultRoot, FlatRoot(<<>>)}, c \in CvesFiles, o \in {NoFile, OldReadme},
     w \in BOOLEAN, v \in Invocations}

\* ----------------------------------------------------------------- paths --
\* A path is a sequence of names; BlogDir is join(rootDir, 'src/content/blog').
BlogDir == <<"src/content/blog">>

CvesPath == <<"src/data/cves.json">>

OutputPath == <<"dist/github-profile-readme.md">>

\* the node of the tree rooted at node that the names lead to
RECURSIVE NodeAt(_, _)
NodeAt(node, names) ==
  IF names = <<>> THEN node
  ELSE IF node.kind # "dir" THEN MissingDir
  ELSE LET hits == {i \in 1..Len(node.entries) : node.entries[i].name = Head(names)}
       IN  IF hits = {} THEN MissingDir
           ELSE NodeAt(node.entries[CHOOSE i \in hits : TRUE], Tail(names))

\* path.relative(baseDir, fullPath) for a fullPath below baseDir: the names
\* after baseDir, joined by the separator
RECURSIVE JoinNames(_, _)
JoinNames(names, s) ==
  IF names = <<>> THEN <<>>
  ELSE IF Len(names) = 1 THEN names[1]
  ELSE names[1] \o <<s>> \o JoinNames(Tail(names), s)

relative(baseDir, fullPath, s) ==
  JoinNames(SubSeq(fullPath, Len(baseDir) + 1, Len(fullPath)), s)

\* ------------------------------------------------- the script's functions --
MdExt == <<".", "m", "d">>

\* relativePath.replace('.md', '').replace(/\\/g, '/')
slug(relativePath) == ReplaceAll(ReplaceFirst(relativePath, MdExt), "\\", "/")

\* what the map callback returns for a document without a header block
Null == [null |-> TRUE]

\* PostOf that also returns null when the title or the date is not found
PostOf_RejectIncomplete(content, file) ==
  LET fm == frontmatterMatch(content)
      tm == titleMatch(fm.group)
      dm == dateMatch(fm.group)
  IN  IF ~fm.matched \/ ~tm.matched \/ ~dm.matched THEN Null
      ELSE [null |-> FALSE, title |-> tm.group, date |-> NewDate(dm.group),
            slug |-> slug(file.relativePath), file |-> file.fullPath]

\* PostOf without the return of line 47: the fields are extracted from the
\* whole text when no header block is matched
PostOf_NoHeaderCheck(content, file) ==
  LET fm == frontmatterMatch(content)
      frontmatter == IF fm.matched THEN fm.group ELSE content
      tm == titleMatch(frontmatter)
      dm == dateMatch(frontmatter)
  IN  [null |-> FALSE,
       title |-> IF tm.matched THEN tm.group ELSE <<>>,
       date |-> NewDate(IF dm.matched THEN dm.group ELSE <<>>),
       slug |-> slug(file.relativePath),
       file |-> file.fullPath]

\* PostOf with a placeholder for a title that is not found
PostOf_UntitledDefault(content, file) ==
  LET fm == frontmatterMatch(content)
  IN  IF ~fm.matched THEN Null
      ELSE LET frontmatter == fm.group
               tm == titleMatch(frontmatter)
               dm == dateMatch(frontmatter)
           IN  [null |-> FALSE,
                title |-> IF tm.matched THEN tm.group ELSE <<"Untitled">>,
                date |-> NewDate(IF dm.matched THEN dm.group ELSE <<>>),
                slug |-> slug(file.relativePath),
                file |-> file.fullPath]

\* the callback of blogFiles.map: the post record of a document, or Null.
\* file is not a field of the script's record: it remembers the document
\* the record was made from.
PostOf(content, file) ==
  LET fm == frontmatterMatch(content)
  IN  IF ~fm.matched THEN Null
      ELSE LET frontmatter == fm.group
               tm == titleMatch(frontmatter)
               dm == dateMatch(frontmatter)
           IN  [null |-> FALSE,
                title |-> IF tm.matched THEN tm.group ELSE <<>>,
                date |-> NewDate(IF dm.matched THEN dm.group ELSE <<>>),
                slug |-> slug(file.relativePath),
                file |-> file.fullPath]

\* .filter(Boolean)
FilterBoolean(arr) == SelectSeq(arr, LAMBDA x : ~x.null)

\* the comparator (a, b) => b.date - a.date as Array.prototype.sort sees it:
\* a NaN result counts as +0.  The value is the sign.
Sign(n) == IF n < 0 THEN -1 ELSE IF n > 0 THEN 1 ELSE 0

\* the comparator with its operands exchanged: a.date - b.date
CompareDate_Ascending(a, b) ==
  IF a.date.nan \/ b.date.nan THEN 0 ELSE Sign(a.date.time - b.date.time)

CompareDate(a, b) ==
  IF a.date.nan \/ b.date.nan THEN 0 ELSE Sign(b.date.time - a.date.time)

\* a consistent comparator for the elements of arr (ECMAScript, 23.1.3.30)
ConsistentDates(arr) ==
  \A i, j, k \in 1..Len(arr) :
    /\ CompareDate(arr[i], arr[j]) = 0 /\ CompareDate(arr[j], arr[k]) = 0
         => CompareDate(arr[i], arr[k]) = 0
    /\ CompareDate(arr[i], arr[j]) < 0 /\ CompareDate(arr[j], arr[k]) < 0
         => CompareDate(arr[i], arr[k]) < 0
    /\ CompareDate(arr[i], arr[j]) > 0 /\ CompareDate(arr[j], arr[k]) > 0
         => CompareDate(arr[i], arr[k]) > 0

\* the permutations of a sequence
Perms(arr) ==
  {[k \in 1..Len(arr) |-> arr[p[k]]] :
     p \in {q \in [1..Len(arr) -> 1..Len(arr)] :
              \A i, j \in 1..Len(arr) : q[i] = q[j] => i = j}}

\* the elements of an array
Elems(arr) == {arr[i] : i \in 1..Len(arr)}

\* a sort that puts equal elements in the reverse of their order
StableSort_TiesReversed(arr, cmp) ==
  LET n == Len(arr)
      before(j, i) ==
        cmp[<<arr[j], arr[i]>>] < 0 \/ (cmp[<<arr[j], arr[i]>>] = 0 /\ j > i)
      rank(i) == Cardinality({j \in 1..n : j # i /\ before(j, i)}) + 1
  IN  [k \in 1..n |-> arr[CHOOSE i \in 1..n : rank(i) = k]]

\* Array.prototype.sort is stable: with a consistent comparator the element
\* at index i goes after every element that compares before it and after
\* every equal element of a smaller index.  cmp[<<a, b>>] is the sign of the
\* comparator's result for a and b.
StableSort(arr, cmp) ==
  LET n == Len(arr)
      before(j, i) ==
        cmp[<<arr[j], arr[i]>>] < 0 \/ (cmp[<<arr[j], arr[i]>>] = 0 /\ j < i)
      rank(i) == Cardinality({j \in 1..n : j # i /\ before(j, i)}) + 1
  IN  [k \in 1..n |-> arr[CHOOSE i \in 1..n : rank(i) = k]]

\* the comparator of line 57 on the elements of arr
DateComparator(arr) ==
  [p \in Elems(arr) \X Elems(arr) |-> CompareDate(p[1], p[2])]

\* .sort((a, b) => b.date - a.date): the results the engine may give.  With
\* an inconsistent comparator the order is implementation-defined.
SortPosts(arr) ==
  IF ConsistentDates(arr) THEN {StableSort(arr, DateComparator(arr))} ELSE Perms(arr)

\* Number-to-string of a property key
RECURSIVE ToDigits(_)
ToDigits(n) ==
  IF n < 10 THEN <<Digits[n + 1]>> ELSE ToDigits(n \div 10) \o <<Digits[(n % 10) + 1]>>

\* a key cut to the first three characters of the year
PropertyKey_Truncated(year) ==
  LET key == IF year.isNum THEN ToDigits(year.num) ELSE year.str
  IN  SubSeq(key, 1, Min({3, Len(key)}))

\* the property key that acc[year] uses
PropertyKey(year) == IF year.isNum THEN ToDigits(year.num) ELSE year.str

\* a.localeCompare(b) for texts of digits: the first differing character
\* decides, a proper prefix comes first
localeCompare(a, b) ==
  LET m == IF Len(a) < Len(b) THEN Len(a) ELSE Len(b)
      diff == {i \in 1..m : a[i] # b[i]}
  IN  IF diff = {} THEN Sign(Len(a) - Len(b))
      ELSE Sign(DigitVal(a[Min(diff)]) - DigitVal(b[Min(diff)]))

\* an integer-index property key
IsIndexKey(key) ==
  /\ Len(key) >= 1
  /\ \A i \in 1..Len(key) : key[i] \in DigitChars
  /\ Len(key) > 1 => key[1] # "0"

RECURSIVE KeyVal(_)
KeyVal(key) ==
  IF key = <<>> THEN 0
  ELSE KeyVal(SubSeq(key, 1, Len(key) - 1)) * 10 + DigitVal(key[Len(key)])

\* the reduce callback without the test of line 62: acc[year] = [] for every
\* advisory
RECURSIVE GroupByYear_Reset(_, _)
GroupByYear_Reset(acc, list) ==
  IF list = <<>> THEN acc
  ELSE LET cve == Head(list)
           year == PropertyKey(cve.date)
           at == {i \in 1..Len(acc) : acc[i].key = year}
           acc1 == IF at = {} THEN Append(acc, [key |-> year, items |-> <<>>]) ELSE acc
           i == CHOOSE i \in 1..Len(acc1) : acc1[i].key = year
       IN  GroupByYear_Reset([acc1 EXCEPT ![i].items = <<cve>>], Tail(list))

\* cves.reduce(...): the object is the sequence of its properties in the
\* order of their creation, each a key and the advisories pushed to it
RECURSIVE GroupByYear(_, _)
GroupByYear(acc, list) ==
  IF list = <<>> THEN acc
  ELSE LET cve == Head(list)
           year == PropertyKey(cve.date)
           at == {i \in 1..Len(acc) : acc[i].key = year}
           acc1 == IF at = {} THEN Append(acc, [key |-> year, items |-> <<>>]) ELSE acc
           i == CHOOSE i \in 1..Len(acc1) : acc1[i].key = year
       IN  GroupByYear([acc1 EXCEPT ![i].items = Append(@, cve)], Tail(list))

\* cvesByYear[year]
ItemsOf(obj, year) == obj[CHOOSE i \in 1..Len(obj) : obj[i].key = year].items

\* Object.keys(obj): integer-index keys in ascending numeric order, then the
\* other keys in the order of their creation
ObjectKeys(obj) ==
  LET keys == [i \in 1..Len(obj) |-> obj[i].key]
      index == SelectSeq(keys, IsIndexKey)
      ascending == [p \in Elems(index) \X Elems(index) |-> Sign(KeyVal(p[1]) - KeyVal(p[2]))]
  IN  StableSort(index, ascending) \o SelectSeq(keys, LAMBDA k : ~IsIndexKey(k))

\* the comparator with its operands exchanged: a.localeCompare(b)
YearCompare_Ascending(a, b) == localeCompare(a, b)

\* the comparator (a, b) => b.localeCompare(a)
YearCompare(a, b) == localeCompare(b, a)

\* Object.keys(cvesByYear).sort((a, b) => b.localeCompare(a))
SortYears(obj) ==
  LET keys == ObjectKeys(obj)
  IN  StableSort(keys, [p \in Elems(keys) \X Elems(keys) |-> YearCompare(p[1], p[2])])

\* the fragments of the output document, in the order of the template
SitePrefix == "https://jomar.fr/blog/"

\* PostLine without the closing slash of the URL
PostLine_NoSlash(post) ==
  [kind |-> "post", title |-> post.title,
   url |-> <<SitePrefix>> \o post.slug, file |-> post.file]

\* `  * [${post.title}](https://jomar.fr/blog/${post.slug}/)\n`; file is
\* not part of the text: it remembers the document of the line
PostLine(post) ==
  [kind |-> "post", title |-> post.title,
   url |-> <<SitePrefix>> \o post.slug \o <<"/">>, file |-> post.file]

\* CveLine whose second link goes to the target's name instead of the
\* record's link
CveLine_TargetUnlinked(cve) ==
  [kind |-> "cve", id |-> cve.id, idHref |-> cve.link, type |-> cve.type,
   target |-> cve.target, targetHref |-> cve.target]

\* `  * [${cve.id}](${cve.link}) - ${cve.type} in [${cve.target}](${cve.link})\n`
CveLine(cve) ==
  [kind |-> "cve", id |-> cve.id, idHref |-> cve.link, type |-> cve.type,
   target |-> cve.target, targetHref |-> cve.link]

\* the fragment years.forEach appends for one year
YearBlock(obj, year) ==
  <<[kind |-> "year", year |-> year]>>
    \o [i \in 1..Len(ItemsOf(obj, year)) |-> CveLine(ItemsOf(obj, year)[i])]
    \o <<[kind |-> "yearEnd"]>>

RECURSIVE YearBlocks(_, _)
YearBlocks(obj, ys) ==
  IF ys = <<>> THEN <<>> ELSE YearBlock(obj, Head(ys)) \o YearBlocks(obj, Tail(ys))

\* the template with the advisory lists put before the static link lists
RenderReadme_AdvisoriesFirst(posts, obj, ys) ==
  <<[kind |-> "preamble"]>>
    \o [i \in 1..Len(posts) |-> PostLine(posts[i])]
    \o YearBlocks(obj, ys)
    \o <<[kind |-> "static"]>>
    \o <<[kind |-> "stats"]>>

\* lines 70-173: the preamble, the post lines, the static link lists, the
\* advisory lists and the statistics reference

RenderReadme(posts, obj, ys) ==
  <<[kind |-> "preamble"]>>
    \o [i \in 1..Len(posts) |-> PostLine(posts[i])]
    \o <<[kind |-> "static"]>>
    \o YearBlocks(obj, ys)
    \o <<[kind |-> "stats"]>>

\* ----------------------------------------------------------------- state --
VARIABLES
  pc,          \* the statement the run is at
  root,        \* the content tree (src/content/blog)
  cvesFile,    \* the advisory file (src/data/cves.json)
  sep,         \* path.sep
  writable,    \* whether the output path can be written
  invocation,  \* process.argv and process.env
  outFile,     \* the file at the output path
  earlier,     \* the file at the output path when the run began
  cves,        \* const cves
  stack,       \* the activations of findMarkdownFiles
  blogFiles,   \* const blogFiles
  mapped,      \* the array blogFiles.map is building
  blogPosts,   \* const blogPosts
  cvesByYear,  \* const cvesByYear
  years,       \* const years
  readme,      \* let readme
  exitCode,    \* the exit status of the process, -1 while it runs
  ioLog        \* the file-system calls made so far

\* The state of a run of scripts/generate-blog-image.sh.
VARIABLES
  imgPc,         \* the command the script is at
  GEMINI_API_KEY,\* the environment variable: "unset", "empty" or "set"
  argc,          \* $#
  outputDir,     \* whether $OUTPUT_DIR exists, and whether mkdir -p can make it
  reply,         \* what the call of the API gives
  RESPONSE,      \* the shell variable
  IMAGE_DATA,    \* the shell variable
  imageFile,     \* the file $OUTPUT_DIR/$FILENAME.png
  imageEarlier,  \* that file when the script was started
  apiCalls,      \* the number of calls of the API made
  imgExit        \* the exit status of the script, -1 while it runs

imageVars ==
  <<imgPc, GEMINI_API_KEY, argc, outputDir, reply, RESPONSE, IMAGE_DATA, imageFile,
    imageEarlier, apiCalls, imgExit>>

vars ==
  <<pc, root, cvesFile, sep, writable, invocation, outFile, earlier, cves, stack, blogFiles, mapped,
    blogPosts, cvesByYear, years, readme, exitCode, ioLog, imageVars>>

inputVars == <<root, cvesFile, sep, writable, invocation, earlier>>

\* no run of generate-blog-image.sh: its state while generate-readme.js runs
ImageIdle ==
  /\ imgPc = "idle"
  /\ GEMINI_API_KEY = "unset"
  /\ argc = 0
  /\ outputDir = [exists |-> FALSE, existed |-> FALSE, creatable |-> FALSE]
  /\ reply = [curl |-> 0, json |-> FALSE, data |-> [isString |-> FALSE, text |-> <<>>]]
  /\ RESPONSE = reply
  /\ IMAGE_DATA = <<>>
  /\ imageFile = [exists |-> FALSE, bytes |-> <<>>]
  /\ imageEarlier = imageFile
  /\ apiCalls = 0
  /\ imgExit = -1

Init ==
  /\ \E inp \in Inputs :
       /\ root = inp.root
       /\ cvesFile = inp.cvesFile
       /\ sep = inp.sep
       /\ writable = inp.writable
       /\ invocation = inp.invocation
       /\ outFile = inp.out
       /\ earlier = inp.out
  /\ pc = "loadCves"
  /\ cves = [isArray |-> FALSE, items |-> <<>>]
  /\ stack = <<>>
  /\ blogFiles = <<>>
  /\ mapped = <<>>
  /\ blogPosts = <<>>
  /\ cvesByYear = <<>>
  /\ years = <<>>
  /\ readme = <<>>
  /\ exitCode = -1
  /\ ioLog = <<>>
  /\ ImageIdle

\* an uncaught exception: the process ends with status 1
Throw ==
  /\ pc' = "aborted"
  /\ exitCode' = 1

Log(op, path) == ioLog' = Append(ioLog, [op |-> op, path |-> path])

\* LoadCves with the parse error caught: a file that cannot be parsed counts
\* as an empty collection
LoadCves_Lenient ==
  /\ pc = "loadCves"
  /\ Log("readFile", CvesPath)
  /\ IF cvesFile.status = "unreadable"
     THEN Throw /\ UNCHANGED cves
     ELSE /\ cves' = [isArray |-> cvesFile.status # "nonarray", items |-> cvesFile.value]
          /\ pc' = "findFiles"
          /\ UNCHANGED exitCode
  /\ UNCHANGED <<imageVars, inputVars, outFile, stack, blogFiles, mapped, blogPosts,
                 cvesByYear, years, readme>>

\* line 18: JSON.parse(readFileSync(join(rootDir, 'src/data/cves.json')))
LoadCves ==
  /\ pc = "loadCves"
  /\ Log("readFile", CvesPath)
  /\ IF cvesFile.status \in {"unreadable", "malformed"}
     THEN Throw /\ UNCHANGED cves
     ELSE /\ cves' = [isArray |-> cvesFile.status = "ok", items |-> cvesFile.value]
          /\ pc' = "findFiles"
          /\ UNCHANGED exitCode
  /\ UNCHANGED <<imageVars, inputVars, outFile, stack, blogFiles, mapped, blogPosts,
                 cvesByYear, years, readme>>

\* readdirSync(dir): the names of the directory, or a failure
ReadDir(dir) ==
  LET node == NodeAt(root, SubSeq(dir, Len(BlogDir) + 1, Len(dir)))
  IN  IF node.kind = "dir" /\ node.readable
      THEN [ok |-> TRUE, names |-> [i \in 1..Len(node.entries) |-> node.entries[i].name]]
      ELSE [ok |-> FALSE, names |-> <<>>]

\* statSync(fullPath)
Stat(fullPath) ==
  LET node == NodeAt(root, SubSeq(fullPath, Len(BlogDir) + 1, Len(fullPath)))
  IN  [ok |-> node.kind \in {"dir", "file"}, isDirectory |-> node.kind = "dir"]

\* readFileSync(fullPath, 'utf-8')
ReadFile(fullPath) ==
  LET node == NodeAt(root, SubSeq(fullPath, Len(BlogDir) + 1, Len(fullPath)))
  IN  IF node.kind = "file" /\ node.doc # Unreadable
      THEN [ok |-> TRUE, content |-> DocText[node.doc]]
      ELSE [ok |-> FALSE, content |-> <<>>]

\* a new activation of findMarkdownFiles(dir, baseDir), lines 22-23
Frame(dir, baseDir, names) ==
  [dir |-> dir, baseDir |-> baseDir, entries |-> names, i |-> 1, files |-> <<>>]

\* line 43: the call findMarkdownFiles(blogDir)
FindCall ==
  /\ pc = "findFiles"
  /\ Log("readdir", BlogDir)
  /\ LET rd == ReadDir(BlogDir)
     IN  IF ~rd.ok THEN Throw /\ UNCHANGED stack
         ELSE /\ stack' = <<Frame(BlogDir, BlogDir, rd.names)>>
              /\ pc' = "walk"
              /\ UNCHANGED exitCode
  /\ UNCHANGED <<imageVars, inputVars, outFile, cves, blogFiles, mapped, blogPosts,
                 cvesByYear, years, readme>>

Top == stack[Len(stack)]

\* FindEntry with the relative path taken from the directory being listed
\* (relative(dir, fullPath)) instead of from baseDir
FindEntry_RelativeToDir ==
  /\ pc = "walk"
  /\ Top.i <= Len(Top.entries)
  /\ LET entry == Top.entries[Top.i]
         fullPath == Append(Top.dir, entry)
         st == Stat(fullPath)
         rd == ReadDir(fullPath)
         advanced == [stack EXCEPT ![Len(stack)].i = @ + 1]
         statCall == [op |-> "stat", path |-> fullPath]
     IN  IF ~st.ok
         THEN /\ Throw
              /\ ioLog' = Append(ioLog, statCall)
              /\ UNCHANGED stack
         ELSE IF st.isDirectory
         THEN /\ ioLog' = ioLog \o <<statCall, [op |-> "readdir", path |-> fullPath]>>
              /\ IF ~rd.ok THEN Throw /\ UNCHANGED stack
                 ELSE /\ stack' = Append(advanced, Frame(fullPath, Top.baseDir, rd.names))
                      /\ UNCHANGED <<pc, exitCode>>
         ELSE /\ ioLog' = Append(ioLog, statCall)
              /\ stack' =
                   IF EndsWith(entry, MdExt)
                   THEN [advanced EXCEPT ![Len(stack)].files =
                           Append(@, [fullPath |-> fullPath,
                                      relativePath |-> relative(Top.dir, fullPath, sep)])]
                   ELSE advanced
              /\ UNCHANGED <<pc, exitCode>>
  /\ UNCHANGED <<imageVars, inputVars, outFile, cves, blogFiles, mapped, blogPosts,
                 cvesByYear, years, readme>>

\* lines 25-36: one iteration of the loop over the entries of the directory
\* of the innermost activation
FindEntry ==
  /\ pc = "walk"
  /\ Top.i <= Len(Top.entries)
  /\ LET entry == Top.entries[Top.i]
         fullPath == Append(Top.dir, entry)
         st == Stat(fullPath)
         rd == ReadDir(fullPath)
         advanced == [stack EXCEPT ![Len(stack)].i = @ + 1]
         statCall == [op |-> "stat", path |-> fullPath]
     IN  IF ~st.ok
         THEN /\ Throw
              /\ ioLog' = Append(ioLog, statCall)
              /\ UNCHANGED stack
         ELSE IF st.isDirectory
         THEN /\ ioLog' = ioLog \o <<statCall, [op |-> "readdir", path |-> fullPath]>>
              /\ IF ~rd.ok THEN Throw /\ UNCHANGED stack
                 ELSE /\ stack' = Append(advanced, Frame(fullPath, Top.baseDir, rd.names))
                      /\ UNCHANGED <<pc, exitCode>>
         ELSE /\ ioLog' = Append(ioLog, statCall)
              /\ stack' =
                   IF EndsWith(entry, MdExt)
                   THEN [advanced EXCEPT ![Len(stack)].files =
                           Append(@, [fullPath |-> fullPath,
                                      relativePath |-> relative(Top.baseDir, fullPath, sep)])]
                   ELSE advanced
              /\ UNCHANGED <<pc, exitCode>>
  /\ UNCHANGED <<imageVars, inputVars, outFile, cves, blogFiles, mapped, blogPosts,
                 cvesByYear, years, readme>>

\* FindReturn that returns only from the outermost activation: an
\* enumeration of a subdirectory never comes back
FindReturn_OutermostOnly ==
  /\ pc = "walk"
  /\ Top.i > Len(Top.entries)
  /\ Len(stack) = 1
  /\ blogFiles' = Top.files
  /\ stack' = <<>>
  /\ pc' = "map"
  /\ UNCHANGED <<imageVars, inputVars, outFile, cves, mapped, blogPosts, cvesByYear, years,
                 readme, exitCode, ioLog>>

\* line 38: return files, to the activation that called (line 30) or to
\* line 43
FindReturn ==
  /\ pc = "walk"
  /\ Top.i > Len(Top.entries)
  /\ IF Len(stack) = 1
     THEN /\ blogFiles' = Top.files
          /\ stack' = <<>>
          /\ pc' = "map"
     ELSE /\ stack' = [SubSeq(stack, 1, Len(stack) - 1)
                         EXCEPT ![Len(stack) - 1].files = @ \o Top.files]
          /\ UNCHANGED <<blogFiles, pc>>
  /\ UNCHANGED <<imageVars, inputVars, outFile, cves, mapped, blogPosts, cvesByYear, years,
                 readme, exitCode, ioLog>>

\* ReadPost that reads the file again when the first read gave no header
\* block
ReadPost_Retry ==
  /\ pc = "map"
  /\ Len(mapped) < Len(blogFiles)
  /\ LET file == blogFiles[Len(mapped) + 1]
         rf == ReadFile(file.fullPath)
         call == [op |-> "readFile", path |-> file.fullPath]
     IN  IF ~rf.ok THEN Throw /\ Log("readFile", file.fullPath) /\ UNCHANGED mapped
         ELSE /\ mapped' = Append(mapped, PostOf(rf.content, file))
              /\ ioLog' = IF mapped'[Len(mapped')].null THEN ioLog \o <<call, call>>
                          ELSE Append(ioLog, call)
              /\ UNCHANGED <<pc, exitCode>>
  /\ UNCHANGED <<imageVars, inputVars, outFile, cves, stack, blogFiles, blogPosts,
                 cvesByYear, years, readme>>

\* ReadPost with the read error caught: a file that cannot be read is
\* skipped like a document without a header block
ReadPost_SkipUnreadable ==
  /\ pc = "map"
  /\ Len(mapped) < Len(blogFiles)
  /\ LET file == blogFiles[Len(mapped) + 1]
         rf == ReadFile(file.fullPath)
     IN  /\ Log("readFile", file.fullPath)
         /\ mapped' = Append(mapped, IF rf.ok THEN PostOf(rf.content, file) ELSE Null)
         /\ UNCHANGED <<pc, exitCode>>
  /\ UNCHANGED <<imageVars, inputVars, outFile, cves, stack, blogFiles, blogPosts,
                 cvesByYear, years, readme>>

\* lines 44-57: the map callback for the next file
ReadPost ==
  /\ pc = "map"
  /\ Len(mapped) < Len(blogFiles)
  /\ LET file == blogFiles[Len(mapped) + 1]
         rf == ReadFile(file.fullPath)
     IN  /\ Log("readFile", file.fullPath)
         /\ IF ~rf.ok THEN Throw /\ UNCHANGED mapped
            ELSE /\ mapped' = Append(mapped, PostOf(rf.content, file))
                 /\ UNCHANGED <<pc, exitCode>>
  /\ UNCHANGED <<imageVars, inputVars, outFile, cves, stack, blogFiles, blogPosts,
                 cvesByYear, years, readme>>

\* FilterSort that throws when no post is left (as a reduce without an
\* initial value does on an empty array)
FilterSort_NeedsPost ==
  /\ pc = "map"
  /\ Len(mapped) = Len(blogFiles)
  /\ IF FilterBoolean(mapped) = <<>> THEN Throw /\ UNCHANGED blogPosts
     ELSE /\ blogPosts' \in SortPosts(FilterBoolean(mapped))
          /\ pc' = "group"
          /\ UNCHANGED exitCode
  /\ UNCHANGED <<imageVars, inputVars, outFile, cves, stack, blogFiles, mapped, cvesByYear,
                 years, readme, ioLog>>

\* line 57: .filter(Boolean).sort(...)
FilterSort ==
  /\ pc = "map"
  /\ Len(mapped) = Len(blogFiles)
  /\ blogPosts' \in SortPosts(FilterBoolean(mapped))
  /\ pc' = "group"
  /\ UNCHANGED <<imageVars, inputVars, outFile, cves, stack, blogFiles, mapped, cvesByYear,
                 years, readme, exitCode, ioLog>>

\* lines 60-67: cves.reduce throws when cves is not an array
GroupCves ==
  /\ pc = "group"
  /\ IF ~cves.isArray THEN Throw /\ UNCHANGED <<cvesByYear, years>>
     ELSE /\ cvesByYear' = GroupByYear(<<>>, cves.items)
          /\ years' = SortYears(cvesByYear')
          /\ pc' = "render"
          /\ UNCHANGED exitCode
  /\ UNCHANGED <<imageVars, inputVars, outFile, cves, stack, blogFiles, mapped, blogPosts,
                 readme, ioLog>>

\* lines 70-173
Render ==
  /\ pc = "render"
  /\ readme' = RenderReadme(blogPosts, cvesByYear, years)
  /\ pc' = "write"
  /\ UNCHANGED <<imageVars, inputVars, outFile, cves, stack, blogFiles, mapped, blogPosts,
                 cvesByYear, years, exitCode, ioLog>>

\* WriteOutput with the advisory file's path for the output path
WriteOutput_OverAdvisoryFile ==
  /\ pc = "write"
  /\ Log("writeFile", CvesPath)
  /\ IF ~writable THEN Throw /\ UNCHANGED cvesFile
     ELSE /\ cvesFile' = [status |-> "malformed", value |-> <<>>]
          /\ pc' = "done"
          /\ exitCode' = 0
  /\ UNCHANGED <<imageVars, root, sep, writable, invocation, earlier, outFile, cves, stack, blogFiles,
                 mapped, blogPosts, cvesByYear, years, readme>>

\* WriteOutput that appends to the file at the output path
WriteOutput_Append ==
  /\ pc = "write"
  /\ Log("writeFile", OutputPath)
  /\ IF ~writable THEN Throw /\ UNCHANGED outFile
     ELSE /\ outFile' = [exists |-> TRUE, text |-> outFile.text \o readme]
          /\ pc' = "done"
          /\ exitCode' = 0
  /\ UNCHANGED <<imageVars, inputVars, cves, stack, blogFiles, mapped, blogPosts,
                 cvesByYear, years, readme>>

\* lines 176-178: writeFileSync(outputPath, readme)
WriteOutput ==
  /\ pc = "write"
  /\ Log("writeFile", OutputPath)
  /\ IF ~writable THEN Throw /\ UNCHANGED outFile
     ELSE /\ outFile' = [exists |-> TRUE, text |-> readme]
          /\ pc' = "done"
          /\ exitCode' = 0
  /\ UNCHANGED <<imageVars, inputVars, cves, stack, blogFiles, mapped, blogPosts,
                 cvesByYear, years, readme>>

Next ==
  \/ LoadCves
  \/ FindCall
  \/ FindEntry
  \/ FindReturn
  \/ ReadPost
  \/ FilterSort
  \/ GroupCves
  \/ Render
  \/ WriteOutput

Spec == Init /\ [][Next]_vars

\* ------------------------------------------- scripts/generate-blog-image.sh --
\* the largest number of arguments of the script
MaxArgs == 4

\* The characters of the base64 alphabet that occur in the replies, and
\* base64 -d: every group of four characters of the alphabet gives three
\* bytes (here: the bytes that the group encodes); at a character outside
\* the alphabet, or a group cut short, base64 stops with status 1 and has
\* written the bytes of the groups before it.
Base64Alphabet == {"Q", "U", "J", "D", "n", "u", "l"}

RECURSIVE Base64Decode(_)
Base64Decode(text) ==
  IF text = <<>> THEN [ok |-> TRUE, bytes |-> <<>>]
  ELSE IF Len(text) < 4 \/ \E i \in 1..4 : text[i] \notin Base64Alphabet
  THEN [ok |-> FALSE, bytes |-> <<>>]
  ELSE LET rest == Base64Decode(SubSeq(text, 5, Len(text)))
       IN  [ok |-> rest.ok, bytes |-> <<[encodedBy |-> SubSeq(text, 1, 4)]>> \o rest.bytes]

\* the value at .candidates[0].content.parts[0].inlineData.data of a reply:
\* a string, or no string (the field or one of the fields on the way is
\* missing, as in an error reply, or the value is null)
NoData == [isString |-> FALSE, text |-> <<>>]

DataTexts ==
  {<<>>,
   <<"Q", "U", "J", "D">>,
   <<"Q", "U", "J", "D", "Q", "U", "J", "D">>,
   <<"Q", "U", "J", "D", "!">>,
   <<"!">>,
   <<"n", "u", "l", "l">>}

\* what curl gives: its exit status (6: the host is not resolved) and, with
\* status 0, the body of the reply, which is JSON or not
Replies ==
  {[curl |-> 6, json |-> FALSE, data |-> NoData],
   [curl |-> 0, json |-> FALSE, data |-> NoData],
   [curl |-> 0, json |-> TRUE, data |-> NoData]}
    \cup {[curl |-> 0, json |-> TRUE, data |-> [isString |-> TRUE, text |-> t]] : t \in DataTexts}

\* jq -r '.candidates[0].content.parts[0].inlineData.data': the string
\* itself, or the text null; status 2 when the input is not JSON
NullText == <<"n", "u", "l", "l">>

Jq(response) ==
  IF ~response.json THEN [status |-> 2, out |-> <<>>]
  ELSE [status |-> 0, out |-> IF response.data.isString THEN response.data.text ELSE NullText]

\* the image file before the run: none, or the image of an earlier run
NoImage == [exists |-> FALSE, bytes |-> <<>>]

OldImage == [exists |-> TRUE, bytes |-> <<[encodedBy |-> <<"D", "J", "U", "Q">>]>>]

ImageInputs ==
  {[key |-> k, argc |-> n, dir |-> d, reply |-> r, file |-> f] :
     k \in {"unset", "empty", "set"}, n \in 0..MaxArgs,
     d \in {[exists |-> TRUE, existed |-> TRUE, creatable |-> TRUE],
            [exists |-> FALSE, existed |-> FALSE, creatable |-> TRUE],
            [exists |-> FALSE, existed |-> FALSE, creatable |-> FALSE]},
     r \in Replies, f \in {NoImage, OldImage}}

\* generate-readme.js does not run
ReadmeIdle ==
  /\ pc = "idle"
  /\ root = MissingDir
  /\ cvesFile = DefaultCvesFile
  /\ sep = "/"
  /\ writable = FALSE
  /\ invocation = PlainInvocation
  /\ outFile = NoFile
  /\ earlier = NoFile
  /\ cves = [isArray |-> FALSE, items |-> <<>>]
  /\ stack = <<>>
  /\ blogFiles = <<>>
  /\ mapped = <<>>
  /\ blogPosts = <<>>
  /\ cvesByYear = <<>>
  /\ years = <<>>
  /\ readme = <<>>
  /\ exitCode = -1
  /\ ioLog = <<>>

readmeVars ==
  <<pc, root, cvesFile, sep, writable, invocation, outFile, earlier, cves, stack, blogFiles, mapped,
    blogPosts, cvesByYear, years, readme, exitCode, ioLog>>

\* an image file is in a directory that exists
ImageInit ==
  /\ ReadmeIdle
  /\ \E inp \in ImageInputs :
       /\ inp.file.exists => inp.dir.exists
       /\ GEMINI_API_KEY = inp.key
       /\ argc = inp.argc
       /\ outputDir = inp.dir
       /\ reply = inp.reply
       /\ imageFile = inp.file
       /\ imageEarlier = inp.file
  /\ imgPc = "checkKey"
  /\ RESPONSE = [curl |-> 0, json |-> FALSE, data |-> NoData]
  /\ IMAGE_DATA = <<>>
  /\ apiCalls = 0
  /\ imgExit = -1

imageInputVars == <<GEMINI_API_KEY, argc, reply, imageEarlier>>

\* exit, or a command that fails under set -e (line 7)
Exit(status) ==
  /\ imgPc' = "exited"
  /\ imgExit' = status

\* lines 10-14: [ -z "$GEMINI_API_KEY" ]
CheckKey ==
  /\ imgPc = "checkKey"
  /\ IF GEMINI_API_KEY \in {"unset", "empty"} THEN Exit(1)
     ELSE imgPc' = "checkArgs" /\ UNCHANGED imgExit
  /\ UNCHANGED <<readmeVars, imageInputVars, outputDir, RESPONSE, IMAGE_DATA, imageFile, apiCalls>>

\* CheckArgs that asks for two arguments
CheckArgs_TwoSuffice ==
  /\ imgPc = "checkArgs"
  /\ IF argc < 2 THEN Exit(1)
     ELSE imgPc' = "mkdir" /\ UNCHANGED imgExit
  /\ UNCHANGED <<readmeVars, imageInputVars, outputDir, RESPONSE, IMAGE_DATA, imageFile, apiCalls>>

\* lines 17-21: [ $# -lt 3 ]
CheckArgs ==
  /\ imgPc = "checkArgs"
  /\ IF argc < 3 THEN Exit(1)
     ELSE imgPc' = "mkdir" /\ UNCHANGED imgExit
  /\ UNCHANGED <<readmeVars, imageInputVars, outputDir, RESPONSE, IMAGE_DATA, imageFile, apiCalls>>

\* line 29: mkdir -p "$OUTPUT_DIR"
MakeOutputDir ==
  /\ imgPc = "mkdir"
  /\ IF outputDir.exists \/ outputDir.creatable
     THEN /\ outputDir' = [outputDir EXCEPT !.exists = TRUE]
          /\ imgPc' = "curl"
          /\ UNCHANGED imgExit
     ELSE Exit(1) /\ UNCHANGED outputDir
  /\ UNCHANGED <<readmeVars, imageInputVars, RESPONSE, IMAGE_DATA, imageFile, apiCalls>>

\* lines 39-49: RESPONSE=$(curl -s -X POST ...)
CallApi ==
  /\ imgPc = "curl"
  /\ apiCalls' = apiCalls + 1
  /\ IF reply.curl # 0 THEN Exit(reply.curl) /\ UNCHANGED RESPONSE
     ELSE /\ RESPONSE' = reply
          /\ imgPc' = "jq"
          /\ UNCHANGED imgExit
  /\ UNCHANGED <<readmeVars, imageInputVars, outputDir, IMAGE_DATA, imageFile>>

\* line 52: IMAGE_DATA=$(echo "$RESPONSE" | jq -r '...' 2>/dev/null)
ExtractData ==
  /\ imgPc = "jq"
  /\ IF Jq(RESPONSE).status # 0 THEN Exit(Jq(RESPONSE).status) /\ UNCHANGED IMAGE_DATA
     ELSE /\ IMAGE_DATA' = Jq(RESPONSE).out
          /\ imgPc' = "save"
          /\ UNCHANGED imgExit
  /\ UNCHANGED <<readmeVars, imageInputVars, outputDir, RESPONSE, imageFile, apiCalls>>

\* lines 54-65: the redirection > creates or empties the file before
\* base64 -d runs; the status of the pipeline is the status of base64
SaveImage ==
  /\ imgPc = "save"
  /\ IF IMAGE_DATA # NullText /\ IMAGE_DATA # <<>>
     THEN /\ imageFile' = [exists |-> TRUE, bytes |-> Base64Decode(IMAGE_DATA).bytes]
          /\ Exit(IF Base64Decode(IMAGE_DATA).ok THEN 0 ELSE 1)
     ELSE Exit(1) /\ UNCHANGED imageFile
  /\ UNCHANGED <<readmeVars, imageInputVars, outputDir, RESPONSE, IMAGE_DATA, apiCalls>>

ImageNext ==
  \/ CheckKey
  \/ CheckArgs
  \/ MakeOutputDir
  \/ CallApi
  \/ ExtractData
  \/ SaveImage

ImageSpec == ImageInit /\ [][ImageNext]_vars

\* The runs for the question of termination: content trees of every shape
\* the enumeration meets (empty, flat, subdirectories with and without
\* files, a directory named like a document, entries that cannot be read),
\* their documents without a header block or with an empty one,
\* each with a readable and with an unparseable advisory file and with a
\* writable and an unwritable output path.
TermRoots ==
  LET a == <<"a", ".", "m", "d">>
      B == <<"B", ".", "m", "d">>
      e == <<"e", ".", "m", "d">>
      n == <<"n", ".", "t", "x", "t">>
  IN  {DirNode(<<>>, <<>>, TRUE),
       DirNode(<<>>, <<>>, FALSE),
       MissingDir,
       DirNode(<<>>, <<FileNode(a, "nohdr"), FileNode(B, "bare")>>, TRUE),
       DirNode(<<>>, <<FileNode(a, Unreadable)>>, TRUE),
       DirNode(<<>>, <<FileNode(a, "bare"),
                       DirNode(<<"d">>, <<FileNode(B, "nohdr")>>, TRUE)>>, TRUE),
       DirNode(<<>>, <<DirNode(e, <<FileNode(a, "bare")>>, TRUE),
                       FileNode(n, Unreadable)>>, TRUE),
       DirNode(<<>>, <<DirNode(<<"d">>, <<>>, TRUE), NoStatNode(<<"l", ".", "m", "d">>)>>, TRUE),
       DirNode(<<>>, <<DirNode(<<"d">>, <<>>, TRUE), DirNode(e, <<>>, FALSE)>>, TRUE)}

TermInputs ==
  {[root |-> r, cvesFile |-> c, sep |-> "/", out |-> NoFile, writable |-> w,
    invocation |-> PlainInvocation] :
     r \in TermRoots,
     c \in {DefaultCvesFile, [status |-> "malformed", value |-> <<>>],
            [status |-> "nonarray", value |-> <<>>]},
     w \in BOOLEAN}

TermInit ==
  /\ \E inp \in TermInputs :
       /\ root = inp.root
       /\ cvesFile = inp.cvesFile
       /\ sep = inp.sep
       /\ writable = inp.writable
       /\ invocation = inp.invocation
       /\ outFile = inp.out
       /\ earlier = inp.out
  /\ pc = "loadCves"
  /\ cves = [isArray |-> FALSE, items |-> <<>>]
  /\ stack = <<>>
  /\ blogFiles = <<>>
  /\ mapped = <<>>
  /\ blogPosts = <<>>
  /\ cvesByYear = <<>>
  /\ years = <<>>
  /\ readme = <<>>
  /\ exitCode = -1
  /\ ioLog = <<>>
  /\ ImageIdle

\* The script is one sequential program: while a statement is left to run,
\* the process runs it.
TermSpec == TermInit /\ [][Next]_vars /\ WF_vars(Next)

\* ------------------------------------------------------------ properties --
\* What the documents above are, read off their text: the ones that begin
\* with a header block, the ones whose header block has a quoted title and
\* a parseable date, and the title and the date (the year) of each header.
HeaderDocs ==
  {"ok25", "ok24", "tie25", "notitle", "nodate", "baddate", "two", "bare"} \cup FieldDocs

ValidDocs == {"ok25", "ok24", "tie25", "two"} \cup FieldDocs

LackingFieldDocs == {"notitle", "nodate"}

DocTitle ==
  "ok25" :> <<"A">> @@ "ok24" :> <<"B">> @@ "tie25" :> <<"C">> @@
  "notitle" :> <<>> @@ "nodate" :> <<"T">> @@ "baddate" :> <<"D">> @@
  "two" :> <<"F">> @@ "bare" :> <<>> @@
  "apos" :> <<"I", "'", "s">> @@ "dquo" :> <<"a", "\"", "b">> @@ "subtitle" :> <<"T">> @@
  "update" :> <<"U">> @@ "dateval" :> <<"d", "a", "t", "e", ":", " ", "x">>

\* 0 stands for no parseable date
DocYear ==
  "ok25" :> 2025 @@ "ok24" :> 2024 @@ "tie25" :> 2025 @@
  "notitle" :> 2023 @@ "nodate" :> 0 @@ "baddate" :> 0 @@ "two" :> 2025 @@ "bare" :> 0 @@
  "apos" :> 2025 @@ "dquo" :> 2024 @@ "subtitle" :> 2025 @@ "update" :> 2025 @@ "dateval" :> 2025

\* the .md files below a directory node, each with its full path and its
\* document
RECURSIVE DocsUnder(_, _)
DocsUnder(node, path) ==
  IF node.kind # "dir" THEN {}
  ELSE UNION {
         LET e == node.entries[i]
         IN  IF e.kind = "dir" THEN DocsUnder(e, Append(path, e.name))
             ELSE IF e.kind = "file" /\ EndsWith(e.name, MdExt)
             THEN {[path |-> Append(path, e.name), doc |-> e.doc]}
             ELSE {} : i \in 1..Len(node.entries)}

TreeDocsOf == DocsUnder(root, BlogDir)

\* the document a post line was made from
DocOfLine(line) == (CHOOSE d \in TreeDocsOf : d.path = line.file).doc

\* the positions of the post lines of a text
PostLineAt(text) == {i \in 1..Len(text) : text[i].kind = "post"}

\* the positions of the post lines made from the file at path
LinesOf(text, path) == {i \in PostLineAt(text) : text[i].file = path}

\* the post lines of the written output, in their order
OutPostLines == SelectSeq(outFile.text, LAMBDA l : l.kind = "post")

\* C1: when the output has been generated, every .md document whose header
\* block has a quoted title and a parseable date has exactly one post line,
\* and the URL of that line is the site prefix, the slug derived from the
\* document's relative path, and a closing slash.
C1_ValidPostListedOnce ==
  pc = "done" =>
    \A d \in TreeDocsOf :
      d.doc \in ValidDocs =>
        /\ Cardinality(LinesOf(outFile.text, d.path)) = 1
        /\ \A i \in LinesOf(outFile.text, d.path) :
             outFile.text[i].url =
               <<"https://jomar.fr/blog/">>
                 \o slug(relative(BlogDir, d.path, sep)) \o <<"/">>

\* a run that wrote the output for a tree with a valid document in a
\* subdirectory, on a platform whose separator is the backslash
C1_Witness ==
  /\ pc = "done"
  /\ sep = "\\"
  /\ \E d \in TreeDocsOf :
       /\ d.doc \in ValidDocs
       /\ Len(d.path) = Len(BlogDir) + 2
       /\ LinesOf(outFile.text, d.path) # {}

\* every input of the run can be read, the advisory file holds an array
\* and the output path can be written
RECURSIVE TreeReadable(_)
TreeReadable(node) ==
  \/ node.kind = "file"
  \/ /\ node.kind = "dir"
     /\ node.readable
     /\ \A i \in 1..Len(node.entries) :
          /\ TreeReadable(node.entries[i])
          /\ (node.entries[i].kind = "file" /\ EndsWith(node.entries[i].name, MdExt))
               => node.entries[i].doc # Unreadable

InputsFine == cvesFile.status = "ok" /\ writable /\ TreeReadable(root)

\* C2: a document without a (leading) header block never has a post line
\* in the output: every post line comes from a document whose header block
\* was matched.  Such a document does not abort the run: a run whose inputs
\* are all readable never aborts, and when it is done every document with a
\* header block has its line and the output holds the rendered document.
C2_NoHeaderNoLine ==
  /\ pc = "done" =>
       /\ \A i \in PostLineAt(outFile.text) : DocOfLine(outFile.text[i]) \in HeaderDocs
       /\ \A d \in TreeDocsOf : d.doc \in HeaderDocs => LinesOf(outFile.text, d.path) # {}
       /\ outFile = [exists |-> TRUE, text |-> readme]
  /\ InputsFine => pc # "aborted"

\* a finished run over a tree with a document without a header block, a
\* document whose block is not at the start, or both, and a listed document
C2_Witness ==
  /\ pc = "done"
  /\ \E d \in TreeDocsOf : d.doc \in {"nohdr", "late"}
  /\ PostLineAt(outFile.text) # {}

\* C3 as stated: a document whose header block lacks the quoted title or
\* the date has no post line in the generated output.
C3_LackingFieldExcluded ==
  pc = "done" =>
    \A d \in TreeDocsOf : d.doc \in LackingFieldDocs => LinesOf(outFile.text, d.path) = {}

\* C3, amended: a document whose header block lacks the quoted title or the
\* date is not excluded: it has exactly one post line, whose title is the
\* quoted title of the header or empty when there is none, and the run does
\* not abort.
C3_LackingFieldKept ==
  /\ pc = "done" =>
       \A d \in TreeDocsOf :
         d.doc \in LackingFieldDocs =>
           /\ Cardinality(LinesOf(outFile.text, d.path)) = 1
           /\ \A i \in LinesOf(outFile.text, d.path) : outFile.text[i].title = DocTitle[d.doc]
  /\ (InputsFine /\ \E d \in TreeDocsOf : d.doc \in LackingFieldDocs) => pc # "aborted"

\* a finished run with a document without title and a document without date
C3_Witness ==
  /\ pc = "done"
  /\ \E d \in TreeDocsOf : d.doc = "notitle" /\ LinesOf(outFile.text, d.path) # {}
  /\ \E d \in TreeDocsOf : d.doc = "nodate" /\ LinesOf(outFile.text, d.path) # {}

\* the date of the first document is greater than or equal to the date of
\* the second; an invalid date is neither
DateGeq(a, b) == DocYear[a] # 0 /\ DocYear[b] # 0 /\ DocYear[a] >= DocYear[b]

PostLinesSorted ==
  \A i, j \in 1..Len(OutPostLines) :
    i < j => DateGeq(DocOfLine(OutPostLines[i]), DocOfLine(OutPostLines[j]))

\* C4 as stated: in the generated output the post lines are in
\* non-increasing order of parsed date, for every set of discovered posts.
C4_SortedForEverySet == pc = "done" => PostLinesSorted

AllDatesValid ==
  \A i \in 1..Len(OutPostLines) : DocYear[DocOfLine(OutPostLines[i])] # 0

\* C4, amended: when every discovered post has a parseable date, the post
\* lines of the generated output are in non-increasing order of parsed date
\* across the full list.
C4_SortedWhenDatesValid == (pc = "done" /\ AllDatesValid) => PostLinesSorted

\* a finished run over three or more posts with valid dates that were
\* enumerated with an older post first
C4_Witness ==
  /\ pc = "done"
  /\ AllDatesValid
  /\ Len(OutPostLines) >= 3
  /\ \E i, j \in 1..Len(mapped) :
       /\ i < j /\ ~mapped[i].null /\ ~mapped[j].null
       /\ mapped[i].date.time < mapped[j].date.time

\* the year field of an advisory as it is written in the file
LiteralYear(cve) == IF cve.date.isNum THEN ToDigits(cve.date.num) ELSE cve.date.str

\* the positions of the year headings and of the advisory lines of a text
YearAt(text) == {i \in 1..Len(text) : text[i].kind = "year"}

CveLineAt(text) == {i \in 1..Len(text) : text[i].kind = "cve"}

\* the year headings of a text, in their order
Headings(text) ==
  LET hs == SelectSeq(text, LAMBDA l : l.kind = "year")
  IN  [i \in 1..Len(hs) |-> hs[i].year]

\* the position of the heading an advisory line is under: the last heading
\* before it, with no end of a year block in between
HeadingOf(text, p) ==
  LET before == {h \in YearAt(text) : h < p /\ \A e \in h..p : text[e].kind # "yearEnd"}
  IN  IF before = {} THEN 0 ELSE Max(before)

\* the position in the advisory file of the record of an advisory line
InputIndex(line) == line.id[2]

\* C5: every advisory record appears under the heading equal to its literal
\* year field; no year heading occurs twice; within a heading the
\* advisories are in their input order.
C5_AdvisoriesUnderTheirYear ==
  pc = "done" =>
    LET text == outFile.text
    IN  /\ \A k \in 1..Len(cvesFile.value) :
             \E p \in CveLineAt(text) :
               /\ text[p].id = cvesFile.value[k].id
               /\ HeadingOf(text, p) # 0
               /\ text[HeadingOf(text, p)].year = LiteralYear(cvesFile.value[k])
        /\ \A g, h \in YearAt(text) : text[g].year = text[h].year => g = h
        /\ \A p, q \in CveLineAt(text) :
             (p < q /\ HeadingOf(text, p) = HeadingOf(text, q))
               => InputIndex(text[p]) < InputIndex(text[q])

\* a finished run whose advisory file has two records of one year with a
\* record of another year between them
C5_Witness ==
  /\ pc = "done"
  /\ \E i, j, k \in 1..Len(cvesFile.value) :
       /\ i < j /\ j < k
       /\ LiteralYear(cvesFile.value[i]) = LiteralYear(cvesFile.value[k])
       /\ LiteralYear(cvesFile.value[i]) # LiteralYear(cvesFile.value[j])
  /\ Cardinality(CveLineAt(outFile.text)) = 3

\* a comes before b in the lexicographic order of texts of digits
LexLess(a, b) ==
  \/ Len(a) < Len(b) /\ SubSeq(b, 1, Len(a)) = a
  \/ \E i \in 1..Len(a) :
       /\ i <= Len(b)
       /\ SubSeq(a, 1, i - 1) = SubSeq(b, 1, i - 1)
       /\ DigitVal(a[i]) < DigitVal(b[i])

\* C9: the year headings are in descending lexicographic order of the year
\* string, each distinct year of the advisory collection exactly once.
C9_HeadingsDescending ==
  pc = "done" =>
    LET hs == Headings(outFile.text)
    IN  /\ \A i, j \in 1..Len(hs) : i < j => LexLess(hs[j], hs[i])
        /\ {hs[i] : i \in 1..Len(hs)}
             = {LiteralYear(cvesFile.value[k]) : k \in 1..Len(cvesFile.value)}

\* a finished run whose advisory file has the years 2024, 2025 and 999 in
\* this order of first occurrence: the headings are 999, 2025, 2024
C9_Witness ==
  /\ pc = "done"
  /\ Len(cvesFile.value) = 3
  /\ LiteralYear(cvesFile.value[1]) = <<"2", "0", "2", "4">>
  /\ LiteralYear(cvesFile.value[2]) = <<"2", "0", "2", "5">>
  /\ Headings(outFile.text) = << <<"9", "9", "9">>, <<"2", "0", "2", "5">>, <<"2", "0", "2", "4">> >>

\* C6: when the advisory file cannot be parsed the run aborts and produces
\* no output: every step of the run is the abort with exit status 1,
\* nothing but the advisory file is ever read or written (no post document
\* is read, the write to the output path is not reached), and the file at
\* the output path stays as the earlier run left it.
C6_MalformedAdvisoryAborts ==
  /\ [](cvesFile.status = "malformed" =>
          /\ pc \in {"loadCves", "aborted"}
          /\ \A i \in 1..Len(ioLog) : ioLog[i].op = "readFile" /\ ioLog[i].path = CvesPath)
  /\ [][cvesFile.status = "malformed" =>
          pc' = "aborted" /\ exitCode' = 1 /\ outFile' = outFile]_vars

\* an aborted run over a malformed advisory file, a content tree with
\* documents and an output file of an earlier run
C6_Witness ==
  /\ pc = "aborted"
  /\ cvesFile.status = "malformed"
  /\ TreeDocsOf # {}
  /\ outFile = OldReadme

\* the positions of the advisory lines of a text that carry the identifier
LinesOfCve(text, id) == {p \in CveLineAt(text) : text[p].id = id}

\* C7: when the content root exists and holds no document (and the other
\* inputs are readable), the run succeeds: it never aborts, and when it is
\* done the exit status is 0, the output holds the rendered document, the
\* document has no post line and it has a line for every advisory record.
C7_EmptyPostDirectory ==
  (InputsFine /\ TreeDocsOf = {}) =>
    /\ pc # "aborted"
    /\ pc = "done" =>
         /\ exitCode = 0
         /\ outFile = [exists |-> TRUE, text |-> readme]
         /\ PostLineAt(outFile.text) = {}
         /\ \A k \in 1..Len(cvesFile.value) :
              Cardinality(LinesOfCve(outFile.text, cvesFile.value[k].id)) = 1

\* a finished run over an empty content root and three advisory records
C7_Witness ==
  /\ pc = "done"
  /\ root = FlatRoot(<<>>)
  /\ Len(cvesFile.value) = 3
  /\ Cardinality(CveLineAt(outFile.text)) = 3

\* an input of the run cannot be read: the advisory file, the content root,
\* a directory below it or an enumerated .md file
RECURSIVE HasUnreadable(_)
HasUnreadable(node) ==
  \/ node.kind = "missing"
  \/ node.kind = "dir" /\ ~node.readable
  \/ /\ node.kind = "dir"
     /\ \E i \in 1..Len(node.entries) :
          \/ /\ node.entries[i].kind = "file"
             /\ EndsWith(node.entries[i].name, MdExt)
             /\ node.entries[i].doc = Unreadable
          \/ node.entries[i].kind = "dir" /\ HasUnreadable(node.entries[i])

UnreadableInput == cvesFile.status = "unreadable" \/ HasUnreadable(root)

\* C8: an unreadable input is fatal: the run never finishes normally and
\* never writes the output (the file at the output path stays as it was),
\* and when it has aborted the exit status is 1.
\* A readable document with malformed content does not fail the run: a run
\* whose inputs are all readable never aborts.
C8_UnreadableInputFatal ==
  /\ UnreadableInput =>
       /\ pc # "done"
       /\ \A i \in 1..Len(ioLog) : ioLog[i].op # "writeFile"
       /\ outFile = earlier
       /\ pc = "aborted" => exitCode = 1
  /\ InputsFine => pc # "aborted"

\* a run aborted by an unreadable document in a subdirectory
C8_Witness ==
  /\ pc = "aborted"
  /\ exitCode = 1
  /\ cvesFile.status = "ok"
  /\ \E d \in TreeDocsOf : d.doc = Unreadable /\ Len(d.path) = Len(BlogDir) + 2

\* the position of a document in the enumeration of the content tree
EncounterIndex(path) == CHOOSE k \in 1..Len(blogFiles) : blogFiles[k].fullPath = path

TiesInEncounterOrder ==
  \A i, j \in 1..Len(OutPostLines) :
    LET a == OutPostLines[i]
        b == OutPostLines[j]
    IN  (i < j /\ DocYear[DocOfLine(a)] # 0 /\ DocYear[DocOfLine(a)] = DocYear[DocOfLine(b)])
          => EncounterIndex(a.file) < EncounterIndex(b.file)

UpperCase ==
  {"A", "B", "C", "D", "E", "F", "G", "H", "I", "J", "K", "L", "M", "N", "O", "P", "Q",
   "R", "S", "T", "U", "V", "W", "X", "Y", "Z"}

\* the characters of a text
CharsOf(s) == {s[i] : i \in 1..Len(s)}

\* C11: the slug of every post record the map callback has made holds no
\* upper-case letter and no backslash.
C11_SlugLowercaseNoBackslash ==
  \A i \in 1..Len(mapped) :
    ~mapped[i].null =>
      /\ CharsOf(mapped[i].slug) \cap UpperCase = {}
      /\ "\\" \notin CharsOf(mapped[i].slug)


\* C12: the advisory section has exactly one line for every advisory record
\* and no other line, and the line of a record carries the record's
\* identifier, category and target, the identifier and the target both
\* linked to the record's reference link.
C12_OneLinePerAdvisory ==
  pc = "done" =>
    LET text == outFile.text
        recs == cvesFile.value
    IN  /\ Cardinality(CveLineAt(text)) = Len(recs)
        /\ \A k \in 1..Len(recs) :
             /\ Cardinality(LinesOfCve(text, recs[k].id)) = 1
             /\ \A p \in LinesOfCve(text, recs[k].id) :
                  /\ text[p].type = recs[k].type
                  /\ text[p].target = recs[k].target
                  /\ text[p].idHref = recs[k].link
                  /\ text[p].targetHref = recs[k].link

\* a finished run over the content root with documents and three advisory
\* records of one year
C12_Witness ==
  /\ pc = "done"
  /\ root = DefaultRoot
  /\ Len(cvesFile.value) = 3
  /\ \A k \in 1..3 : LiteralYear(cvesFile.value[k]) = LiteralYear(cvesFile.value[1])
  /\ Cardinality(CveLineAt(outFile.text)) = 3


\* the positions of the fragments of a kind
KindAt(text, kinds) == {i \in 1..Len(text) : text[i].kind \in kinds}

\* C13: the output document is, in this order, the preamble, the post
\* list, the static link lists, the advisory lists and the statistics
\* reference: the preamble is the first fragment and the statistics
\* reference the last, each occurs once and so do the static lists, every
\* post line lies between the preamble and the static lists, and every
\* fragment of the advisory lists between the static lists and the
\* statistics reference.
C13_FixedSectionOrder ==
  pc = "done" =>
    LET text == outFile.text
        n == Len(text)
    IN  /\ n >= 3
        /\ KindAt(text, {"preamble"}) = {1}
        /\ KindAt(text, {"stats"}) = {n}
        /\ Cardinality(KindAt(text, {"static"})) = 1
        /\ \A s \in KindAt(text, {"static"}) :
             /\ KindAt(text, {"post"}) = 2..(s - 1)
             /\ KindAt(text, {"year", "cve", "yearEnd"}) = (s + 1)..(n - 1)

\* a finished run whose output has post lines and advisory lines
C13_Witness ==
  /\ pc = "done"
  /\ Cardinality(KindAt(outFile.text, {"post"})) >= 2
  /\ Cardinality(KindAt(outFile.text, {"cve"})) >= 2


\* the .md files of a directory listing in the order of a depth-first walk,
\* each with its full path and its path relative to the content root
RECURSIVE FilesIn(_, _)
FilesIn(entries, dir) ==
  IF entries = <<>> THEN <<>>
  ELSE LET e == Head(entries)
           fullPath == Append(dir, e.name)
           here ==
             IF e.kind = "dir" THEN FilesIn(e.entries, fullPath)
             ELSE IF EndsWith(e.name, MdExt)
             THEN <<[fullPath |-> fullPath, relativePath |-> relative(BlogDir, fullPath, sep)]>>
             ELSE <<>>
       IN  here \o FilesIn(Tail(entries), dir)

\* the documents the inputs determine: what the script makes of the content
\* tree and the advisory collection, whatever the file at the output path
\* and the invocation are.  With dates the comparator does not order
\* consistently the engine's sort decides between several.
DocumentsOfInputs ==
  LET files == FilesIn(root.entries, BlogDir)
      records == [i \in 1..Len(files) |-> PostOf(ReadFile(files[i].fullPath).content, files[i])]
      obj == GroupByYear(<<>>, cvesFile.value)
  IN  {RenderReadme(posts, obj, SortYears(obj)) : posts \in SortPosts(FilterBoolean(records))}

C15_InputsReadOnly ==
  /\ [][root' = root /\ cvesFile' = cvesFile]_vars
  /\ [](\A i \in 1..Len(ioLog) : ioLog[i].op = "writeFile" => ioLog[i].path = OutputPath)

\* a run that read the advisory file and two documents and then aborted in
\* the write to the output path
C15_Witness ==
  /\ pc = "aborted"
  /\ ~writable
  /\ Len(ioLog) >= 4
  /\ ioLog[Len(ioLog)].op = "writeFile"
  /\ Cardinality({i \in 1..Len(ioLog) : ioLog[i].op = "readFile"}) = 3


\* C16: every run terminates: it eventually has written the output and
\* finished with status 0, or has aborted with status 1.
C16_RunTerminates ==
  <>(\/ pc = "done" /\ exitCode = 0 /\ outFile = [exists |-> TRUE, text |-> readme]
     \/ pc = "aborted" /\ exitCode = 1)

\* a finished run whose enumeration went into a subdirectory that holds a
\* document and came back
C16_Witness ==
  /\ pc = "done"
  /\ \E d \in TreeDocsOf : Len(d.path) = Len(BlogDir) + 2
  /\ \E i \in 1..Len(root.entries) : root.entries[i].kind = "file"


\* the documents with a header block in which no quoted title is found, and
\* the ones in which no date field is found
TitleFailDocs == {"notitle", "bare"}

DateFailDocs == {"nodate", "bare"}

\* C17: a document with a header block whose title or date extraction
\* fails is not rejected: its record is made, with the empty title when the
\* title is not found and the invalid date when the date is not found, and
\* when the run is done the output has the post line of the document, with
\* that title.
C17_FailedExtractionDefaults ==
  \A d \in TreeDocsOf :
    d.doc \in TitleFailDocs \cup DateFailDocs =>
      /\ \A i \in 1..Len(mapped) :
           blogFiles[i].fullPath = d.path =>
             /\ ~mapped[i].null
             /\ d.doc \in TitleFailDocs => mapped[i].title = <<>>
             /\ d.doc \in DateFailDocs => mapped[i].date.nan
      /\ pc = "done" =>
           /\ \E p \in 1..Len(blogPosts) :
                /\ blogPosts[p].file = d.path
                /\ d.doc \in DateFailDocs => blogPosts[p].date.nan
           /\ Cardinality(LinesOf(outFile.text, d.path)) = 1
           /\ \A p \in LinesOf(outFile.text, d.path) :
                d.doc \in TitleFailDocs => outFile.text[p].title = <<>>

\* a finished run over a tree with a document whose header block is empty
\* and a document whose header block has a date and no title
C17_Witness ==
  /\ pc = "done"
  /\ \E d, e \in TreeDocsOf :
       /\ d.doc = "bare"
       /\ e.doc = "notitle"
       /\ LinesOf(outFile.text, d.path) # {}
       /\ LinesOf(outFile.text, e.path) # {}


\* the positions of the calls of an operation in the log of file-system
\* calls
CallsAt(op) == {i \in 1..Len(ioLog) : ioLog[i].op = op}

\* C18: the run is one pass that ends with the write: the first file-system
\* call reads the advisory file, no file is read twice and no directory
\* listed twice, the output path is written at most once, and the write is
\* the last call of the run, made when every .md document of the tree has
\* been read and the document with the post list and the advisory lists
\* has been assembled.
C18_SinglePassWriteLast ==
  /\ ioLog # <<>> => ioLog[1] = [op |-> "readFile", path |-> CvesPath]
  /\ \A i, j \in 1..Len(ioLog) : ioLog[i] = ioLog[j] => i = j
  /\ Cardinality(CallsAt("writeFile")) <= 1
  /\ \A w \in CallsAt("writeFile") :
       /\ w = Len(ioLog)
       /\ pc \in {"done", "aborted"}
       /\ \A d \in TreeDocsOf : \E r \in CallsAt("readFile") : r < w /\ ioLog[r].path = d.path
       /\ readme = RenderReadme(blogPosts, cvesByYear, years)
       /\ Cardinality(KindAt(readme, {"post"})) = Len(FilterBoolean(mapped))
       /\ Cardinality(KindAt(readme, {"cve"})) = Len(cvesFile.value)

\* a finished run that read the advisory file and the two documents of a
\* nested tree, one of them without a header block, and then wrote
C18_Witness ==
  /\ pc = "done"
  /\ Cardinality(CallsAt("readFile")) = 3
  /\ Cardinality(CallsAt("readdir")) = 2
  /\ \E d \in TreeDocsOf : d.doc = "nohdr"
  /\ ioLog[Len(ioLog)].op = "writeFile"


\* the text begins, at its first character, with a "---" line and has a
\* line that begins with "---" later
BeginsWithHeader(text) ==
  /\ Len(text) >= 4
  /\ SubSeq(text, 1, 4) = <<"-", "-", "-", "\n">>
  /\ \E k \in 5..(Len(text) - 3) : SubSeq(text, k, k + 3) = <<"\n", "-", "-", "-">>

\* the document of an enumerated file
DocOfFile(file) == (CHOOSE d \in TreeDocsOf : d.path = file.fullPath).doc

\* the records the map callback made of the file at a path
RecordsOf(path) == {i \in 1..Len(mapped) : blogFiles[i].fullPath = path}

\* C19: only a leading header block counts.  A record is made of a document
\* only if its text begins with a "---" line that a later "---" line
\* closes; the document whose "---" block starts after the first character
\* gets no record and no post line; the document with two blocks gets one
\* record and one post line, its title and its date those of the first
\* block.
C19_OnlyLeadingHeaderBlock ==
  /\ \A i \in 1..Len(mapped) :
       ~mapped[i].null => BeginsWithHeader(DocText[DocOfFile(blogFiles[i])])
  /\ \A d \in TreeDocsOf :
       /\ d.doc = "late" =>
            /\ \A i \in RecordsOf(d.path) : mapped[i].null
            /\ pc = "done" => LinesOf(outFile.text, d.path) = {}
       /\ d.doc = "two" =>
            /\ \A i \in RecordsOf(d.path) :
                 /\ ~mapped[i].null
                 /\ mapped[i].title = <<"F">>
                 /\ mapped[i].date = [nan |-> FALSE, time |-> 2025]
            /\ pc = "done" =>
                 /\ Cardinality(RecordsOf(d.path)) = 1
                 /\ Cardinality({p \in 1..Len(blogPosts) : blogPosts[p].file = d.path}) = 1
                 /\ Cardinality(LinesOf(outFile.text, d.path)) = 1
                 /\ \A p \in LinesOf(outFile.text, d.path) : outFile.text[p].title = <<"F">>

\* a finished run over the document with two blocks and the document whose
\* block is not at the beginning
C19_Witness ==
  /\ pc = "done"
  /\ \E d, e \in TreeDocsOf :
       /\ d.doc = "two"
       /\ e.doc = "late"
       /\ LinesOf(outFile.text, d.path) # {}
       /\ LinesOf(outFile.text, e.path) = {}


\* the enumeration has returned to line 43
Enumerated == pc \in {"map", "group", "render", "write", "done"}

\* the names of a path below the content root, joined by the separator of
\* the platform (the trees have files in the root and one level below)
BelowRoot(path) ==
  IF Len(path) = Len(BlogDir) + 1 THEN path[Len(path)]
  ELSE path[Len(path) - 1] \o <<sep>> \o path[Len(path)]

\* C20: the enumeration returns every file whose name ends in ".md", at
\* every depth below the content root, exactly once and nothing else, each
\* with its path relative to the content root; what it returns is a file,
\* never a directory, and the files of a directory whose name ends in ".md"
\* are returned.
C20_EnumerationComplete ==
  Enumerated =>
    /\ {blogFiles[i].fullPath : i \in 1..Len(blogFiles)} = {d.path : d \in TreeDocsOf}
    /\ \A i, j \in 1..Len(blogFiles) : blogFiles[i].fullPath = blogFiles[j].fullPath => i = j
    /\ \A i \in 1..Len(blogFiles) :
         LET path == blogFiles[i].fullPath
         IN  /\ blogFiles[i].relativePath = BelowRoot(path)
             /\ EndsWith(path[Len(path)], MdExt)
             /\ NodeAt(root, SubSeq(path, Len(BlogDir) + 1, Len(path))).kind = "file"

\* the enumeration has returned the one document of a tree whose root holds
\* a directory named e.md with a document in it, and a file n.txt
C20_Witness ==
  /\ pc = "map"
  /\ Len(root.entries) = 2
  /\ root.entries[1].kind = "dir"
  /\ root.entries[1].name = <<"e", ".", "m", "d">>
  /\ root.entries[2].name = <<"n", ".", "t", "x", "t">>
  /\ Len(blogFiles) = 1
  /\ blogFiles[1].relativePath = <<"e", ".", "m", "d", sep, "a", ".", "m", "d">>


\* a relative path without its last three characters (the extension of an
\* enumerated file), its backslashes turned into slashes
WithoutExtension(relativePath) ==
  [i \in 1..(Len(relativePath) - 3) |->
     IF relativePath[i] = "\\" THEN "/" ELSE relativePath[i]]

\* C21: the slug of every post record is the relative path of its file
\* with the final ".md" removed and every backslash replaced by a slash,
\* also when ".md" occurs earlier in the path.
C21_SlugDropsFinalExtension ==
  \A i \in 1..Len(mapped) :
    ~mapped[i].null => mapped[i].slug = WithoutExtension(blogFiles[i].relativePath)


\* the documents whose title field is a quoted string with a quote character
\* of the other kind inside
InnerQuoteDocs == {"apos", "dquo"}

\* the documents whose header block has a quoted title field and no other
\* field whose name ends in "title"
QuotedTitleDocs == (ValidDocs \cup {"nodate", "baddate"}) \ {"subtitle"}

\* C22: the title of the record of a document whose title field is a quoted
\* string is the whole text between the opening quote and the closing quote
\* of the same kind, also when a quote character of the other kind is
\* inside; the post line of the output has that title.
C22_TitleBetweenMatchingQuotes ==
  /\ \A i \in 1..Len(mapped) :
       (~mapped[i].null /\ DocOfFile(blogFiles[i]) \in QuotedTitleDocs)
         => mapped[i].title = DocTitle[DocOfFile(blogFiles[i])]
  /\ pc = "done" =>
       \A d \in TreeDocsOf :
         d.doc \in InnerQuoteDocs =>
           \A p \in LinesOf(outFile.text, d.path) : outFile.text[p].title = DocTitle[d.doc]


\* the documents whose header block has, before the title or the date
\* field, a field whose name ends in "title" or "date", or a value that
\* holds the text "date:"
ShadowedFieldDocs == {"subtitle", "update", "dateval"}

\* C23: the title and the date of a record are the values of the header
\* fields named "title" and "date", also when a field whose name ends in
\* "title" or "date", or a value that holds "date:", comes before them.
C23_FieldsByExactName ==
  \A i \in 1..Len(mapped) :
    LET doc == DocOfFile(blogFiles[i])
    IN  (~mapped[i].null /\ doc \in ValidDocs \ InnerQuoteDocs) =>
          /\ mapped[i].title = DocTitle[doc]
          /\ mapped[i].date = [nan |-> FALSE, time |-> DocYear[doc]]


\* some post line of the output is of a document without a parseable date
SomeDateInvalid ==
  \E i \in 1..Len(OutPostLines) : DocYear[DocOfLine(OutPostLines[i])] = 0

\* C24: when some post has an invalid date, the posts with valid dates are
\* still in non-increasing order of date relative to one another: no post
\* line of an older valid date comes before one of a newer valid date.
C24_ValidDatesOrderedDespiteInvalid ==
  (pc = "done" /\ SomeDateInvalid) =>
    \A i, j \in 1..Len(OutPostLines) :
      LET a == DocYear[DocOfLine(OutPostLines[i])]
          b == DocYear[DocOfLine(OutPostLines[j])]
      IN  (i < j /\ a # 0 /\ b # 0) => a >= b


\* the position of the advisory line of the k-th record of the advisory file
LineOfRecord(text, k) == CHOOSE p \in CveLineAt(text) : text[p].id = cvesFile.value[k].id

\* C25: the grouping key is the year field as written: two advisories are
\* under one heading exactly when their year fields are the same text, a
\* number counting as its decimal text; so the year 2024 given as a number
\* and as a string is one heading, and two year strings that differ in a
\* character are two headings.
C25_GroupedByLiteralYear ==
  pc = "done" =>
    LET text == outFile.text
        recs == cvesFile.value
    IN  \A i, j \in 1..Len(recs) :
          /\ HeadingOf(text, LineOfRecord(text, i)) # 0
          /\ (HeadingOf(text, LineOfRecord(text, i)) = HeadingOf(text, LineOfRecord(text, j)))
               <=> (LiteralYear(recs[i]) = LiteralYear(recs[j]))

\* a finished run whose advisory file gives the year 2024 as a number and as
\* a string, and the year 2025
C25_Witness ==
  /\ pc = "done"
  /\ Len(cvesFile.value) = 3
  /\ cvesFile.value[1].date.isNum
  /\ ~cvesFile.value[2].date.isNum
  /\ LiteralYear(cvesFile.value[2]) = <<"2", "0", "2", "4">>
  /\ LiteralYear(cvesFile.value[3]) = <<"2", "0", "2", "5">>
  /\ Cardinality(YearAt(outFile.text)) = 2


\* the script was started without a key or with fewer than three arguments
PreconditionFails == GEMINI_API_KEY \in {"unset", "empty"} \/ argc < 3

\* C26: the blog-image script checks its preconditions first: without a
\* key, or with fewer than three arguments, it never gets past the two
\* checks, the output directory is not made, the API is not called, the
\* image file stays as it was, and the script exits with status 1.
C26_PreconditionsFirst ==
  PreconditionFails =>
    /\ imgPc \in {"checkKey", "checkArgs", "exited"}
    /\ outputDir.exists = outputDir.existed
    /\ apiCalls = 0
    /\ imageFile = imageEarlier
    /\ imgPc = "exited" => imgExit = 1

\* the script has exited with a key and two arguments, the output directory
\* missing and an image of an earlier run absent
C26_Witness ==
  /\ imgPc = "exited"
  /\ GEMINI_API_KEY = "set"
  /\ argc = 2
  /\ ~outputDir.existed
  /\ outputDir.creatable
  /\ reply.json
  /\ imgExit = 1

\* the reply carries image data: a string that is not empty and not the
\* text null
HasImageData ==
  /\ reply.curl = 0
  /\ reply.json
  /\ reply.data.isString
  /\ reply.data.text # <<>>
  /\ reply.data.text # NullText

\* the reply carries image data that base64 can decode
HasDecodableImageData == HasImageData /\ Base64Decode(reply.data.text).ok

\* C27: the blog-image script writes the image file only when the reply
\* carries non-empty, non-null image data; in every other case (an error
\* reply, a missing field, data that cannot be decoded) it exits with a
\* nonzero status and the image file is neither created nor modified.
C27_ImageOnlyFromImageData ==
  /\ imageFile # imageEarlier => HasImageData
  /\ (imgPc = "exited" /\ ~HasDecodableImageData) => (imgExit # 0 /\ imageFile = imageEarlier)

====
